---- MODULE Spec2Model ----
(***************************************************************************)
(* State-machine model of bot.py, the CSV-master IPTV Telegram bot.        *)
(*                                                                         *)
(* Persistent state: the channel file channels.csv and the customer file   *)
(* customers.json.  Every command handler re-reads the file it needs and   *)
(* writes it back; nothing is cached in memory between commands.           *)
(*                                                                         *)
(* Strings are sequences of one-character strings, so that lower(),        *)
(* strip(), split('=', 1), int() and the substring test are computed, not  *)
(* assumed.                                                                *)
(***************************************************************************)
EXTENDS Integers, Sequences, FiniteSets, TLC

VARIABLES
    started,    \* main() has run its start-up load
    chanFile,   \* channels.csv: Absent, or the data rows below the header
    custFile,   \* customers.json: Absent, or the ordered token -> customer map
    writable,   \* whether open(..., 'w'/'a') succeeds in the working directory
    now,        \* wall clock, in ticks
    last,       \* the command handled last: [cmd, caller, args]
    replies,    \* what that command sent back, in order
    addLog,     \* every add_channel_to_csv call so far, in order (ghost)
    procs       \* two bot processes sharing the files: where each is in its command

vars == <<started, chanFile, custFile, writable, now, last, replies, addLog, procs>>

-----------------------------------------------------------------------------
(* Bounds of the model *)

MaxChannels == 2      \* adds are accepted while the file holds fewer rows
MaxCustomers == 2     \* creates are accepted while the file holds fewer records
MaxTime == 2          \* the clock stops ticking here
TicksPerDay == 2      \* clock resolution: ticks in one day
MaxAdds == 3          \* length of the add log in the add-only specification

(* Program constants *)

ListLimit == 10       \* list_customers shows and counts customers[:10]
MinCreateArgs == 3    \* create_customer_playlist: len(context.args) < 3
MinAddArgs == 2       \* add_channel: len(context.args) < 2

-----------------------------------------------------------------------------
(* Strings *)

UpperChars == <<"A","B","C","D","E","F","G","H","I","J","K","L","M",
                "N","O","P","Q","R","S","T","U","V","W","X","Y","Z">>
LowerChars == <<"a","b","c","d","e","f","g","h","i","j","k","l","m",
                "n","o","p","q","r","s","t","u","v","w","x","y","z">>
DigitChars == <<"0","1","2","3","4","5","6","7","8","9">>
SpaceChars == {" ", "\t", "\n", "\r"}

\* str.lower() on one character
LowerChar(c) ==
    IF \E i \in 1..Len(UpperChars) : UpperChars[i] = c
    THEN LowerChars[CHOOSE i \in 1..Len(UpperChars) : UpperChars[i] = c]
    ELSE c

\* str.lower()
StrLower(s) == [i \in 1..Len(s) |-> LowerChar(s[i])]

\* Python's None, as returned by DictReader for a field the row lacks
None == <<"<None>">>

RECURSIVE LStrip(_)
LStrip(s) == IF s # <<>> /\ Head(s) \in SpaceChars THEN LStrip(Tail(s)) ELSE s

RECURSIVE RStrip(_)
RStrip(s) ==
    IF s # <<>> /\ s[Len(s)] \in SpaceChars
    THEN RStrip(SubSeq(s, 1, Len(s) - 1))
    ELSE s

\* str.strip()
Strip(s) == RStrip(LStrip(s))

\* needle in hay
Contains(needle, hay) ==
    \E i \in 0..(Len(hay) - Len(needle)) : SubSeq(hay, i + 1, i + Len(needle)) = needle

\* '=' in arg
HasEq(arg) == \E i \in 1..Len(arg) : arg[i] = "="
EqPos(arg) == CHOOSE i \in 1..Len(arg) : arg[i] = "=" /\ \A j \in 1..(i - 1) : arg[j] # "="
\* arg.split('=', 1)
SplitKey(arg) == SubSeq(arg, 1, EqPos(arg) - 1)
SplitValue(arg) == SubSeq(arg, EqPos(arg) + 1, Len(arg))

DigitVal(c) == (CHOOSE i \in 1..Len(DigitChars) : DigitChars[i] = c) - 1
IsDigit(c) == \E i \in 1..Len(DigitChars) : DigitChars[i] = c
AllDigits(s) == s # <<>> /\ \A i \in 1..Len(s) : IsDigit(s[i])

RECURSIVE DigitsVal(_)
DigitsVal(s) == IF s = <<>> THEN 0 ELSE 10 * DigitsVal(SubSeq(s, 1, Len(s) - 1)) + DigitVal(s[Len(s)])

\* int(arg) succeeds
IsInt(s) == \/ AllDigits(s)
            \/ s # <<>> /\ Head(s) \in {"-", "+"} /\ AllDigits(Tail(s))
\* int(arg)
ToInt(s) == IF Head(s) = "-" THEN 0 - DigitsVal(Tail(s))
            ELSE IF Head(s) = "+" THEN DigitsVal(Tail(s))
            ELSE DigitsVal(s)

\* "abc" written out as a string of the model
KeyGroup == <<"g","r","o","u","p">>
KeyCountry == <<"c","o","u","n","t","r","y">>
KeyLanguage == <<"l","a","n","g","u","a","g","e">>
KeyQuality == <<"q","u","a","l","i","t","y">>
KeyCategory == <<"c","a","t","e","g","o","r","y">>
KeyTags == <<"t","a","g","s">>
General == <<"G","e","n","e","r","a","l">>
HD == <<"H","D">>

-----------------------------------------------------------------------------
(* Files.  A file is [exists, rows]; for channels.csv rows are the lines   *)
(* below the header, each a sequence of fields; for customers.json rows    *)
(* are the entries of the JSON object in order, each [token, customer].    *)

Absent == [exists |-> FALSE, rows |-> <<>>]
EmptyFile == [exists |-> TRUE, rows |-> <<>>]
FileOf(rows) == [exists |-> TRUE, rows |-> rows]

\* row.get(column): DictReader fills the columns a short row lacks with None
Field(row, i) == IF i <= Len(row) THEN row[i] ELSE None

\* the three .strip() calls raise AttributeError on None
RowRaises(row) == \E i \in 1..3 : Field(row, i) = None

\* the dict appended for one row
ChannelOfRow(row) ==
    [name |-> Strip(Field(row, 1)), url |-> Strip(Field(row, 2)),
     group |-> Strip(Field(row, 3)), country |-> Field(row, 4),
     language |-> Field(row, 5), quality |-> Field(row, 6),
     category |-> Field(row, 7), tags |-> Field(row, 8)]

\* for row in reader: channels.append(...), inside the try: what was appended
\* before a row raises is what the function returns.  DictReader skips
\* blank lines.
RECURSIVE ReadRows(_)
ReadRows(rows) ==
    IF rows = <<>> THEN <<>>
    ELSE IF Head(rows) = <<>> THEN ReadRows(Tail(rows))
    ELSE IF RowRaises(Head(rows)) THEN <<>>
    ELSE <<ChannelOfRow(Head(rows))>> \o ReadRows(Tail(rows))

\* load_channels_from_csv(): the list returned and the file left behind
\* (an absent file is created with the header row, if it can be written)
load_channels_from_csv(file, w) ==
    IF file.exists
    THEN [channels |-> ReadRows(file.rows), file |-> file]
    ELSE [channels |-> <<>>, file |-> IF w THEN EmptyFile ELSE Absent]

\* csv.writer writes None as the empty field
WriteField(v) == IF v = None THEN <<>> ELSE v

\* the row add_channel_to_csv writes; the handler passes no kwargs
NewRow(name, url, group) == <<name, url, group, <<>>, <<>>, HD, <<>>, <<>>>>

\* the row remove_channel_from_csv writes back for a kept channel
RowOfChannel(ch) ==
    <<ch.name, ch.url, ch.group, WriteField(ch.country), WriteField(ch.language),
      WriteField(ch.quality), WriteField(ch.category), WriteField(ch.tags)>>

\* faulty variant: the duplicate check without .lower()
NameExistsExact(channels, name) ==
    \E i \in 1..Len(channels) : channels[i].name = name

\* ch['name'].lower() == name.lower() for some loaded channel
NameExists(channels, name) ==
    \E i \in 1..Len(channels) : StrLower(channels[i].name) = StrLower(name)

\* add_channel_to_csv after its load: the duplicate check on the loaded list,
\* then the append to the file as it is at that moment
AddWrite(channels, file, w, name, url, group) ==
    IF NameExists(channels, name) THEN [ok |-> FALSE, file |-> file]
    ELSE IF ~w THEN [ok |-> FALSE, file |-> file]              \* open(.., 'a') raises
    ELSE [ok |-> TRUE, file |-> FileOf(Append(file.rows, NewRow(name, url, group)))]

\* add_channel_to_csv(name, url, group): [ok, file]
add_channel_to_csv(file, w, name, url, group) ==
    LET ld == load_channels_from_csv(file, w) IN
    AddWrite(ld.channels, ld.file, w, name, url, group)

\* faulty variant: the removal without .lower()
WithoutNameExact(channels, name) == SelectSeq(channels, LAMBDA ch : ch.name # name)

\* [ch for ch in channels if ch['name'].lower() != name.lower()]
RECURSIVE WithoutName(_, _)
WithoutName(channels, name) ==
    IF channels = <<>> THEN <<>>
    ELSE IF StrLower(Head(channels).name) # StrLower(name)
         THEN <<Head(channels)>> \o WithoutName(Tail(channels), name)
         ELSE WithoutName(Tail(channels), name)

\* faulty variant: the rewrite made from the file as it is when written
RemoveWriteFresh(channels, file, w, name) ==
    LET current == ReadRows(file.rows)
        new_channels == WithoutName(current, name)
    IN  IF Len(new_channels) = Len(current) THEN [ok |-> FALSE, file |-> file]
        ELSE [ok |-> TRUE,
              file |-> FileOf([i \in 1..Len(new_channels) |-> RowOfChannel(new_channels[i])])]

\* remove_channel_from_csv after its load: the comparison of lengths, then
\* the rewrite of the whole file from the loaded list
RemoveWrite(channels, file, w, name) ==
    LET new_channels == WithoutName(channels, name) IN
    IF Len(new_channels) = Len(channels) THEN [ok |-> FALSE, file |-> file]
    ELSE IF ~w THEN [ok |-> FALSE, file |-> file]              \* open(.., 'w') raises
    ELSE [ok |-> TRUE,
          file |-> FileOf([i \in 1..Len(new_channels) |-> RowOfChannel(new_channels[i])])]

\* remove_channel_from_csv(name): [ok, file]
remove_channel_from_csv(file, w, name) ==
    LET ld == load_channels_from_csv(file, w) IN
    RemoveWrite(ld.channels, ld.file, w, name)

\* 'key' in criteria and criteria['key']
Given(criteria, key) == key \in DOMAIN criteria /\ criteria[key] # <<>>

\* the five exact-match steps of filter_channels, applied in turn
FilterExact(channels, criteria) ==
    LET f1 == IF Given(criteria, KeyGroup)
              THEN SelectSeq(channels, LAMBDA ch : ch.group = criteria[KeyGroup]) ELSE channels
        f2 == IF Given(criteria, KeyCountry)
              THEN SelectSeq(f1, LAMBDA ch : ch.country = criteria[KeyCountry]) ELSE f1
        f3 == IF Given(criteria, KeyLanguage)
              THEN SelectSeq(f2, LAMBDA ch : ch.language = criteria[KeyLanguage]) ELSE f2
        f4 == IF Given(criteria, KeyQuality)
              THEN SelectSeq(f3, LAMBDA ch : ch.quality = criteria[KeyQuality]) ELSE f3
        f5 == IF Given(criteria, KeyCategory)
              THEN SelectSeq(f4, LAMBDA ch : ch.category = criteria[KeyCategory]) ELSE f4
    IN f5

\* ch.get('tags', '').lower() raises AttributeError on a channel whose row
\* had no tags column, if the tags step reaches it
TagsRaise(channels, criteria) ==
    LET f5 == FilterExact(channels, criteria) IN
    Given(criteria, KeyTags) /\ \E i \in 1..Len(f5) : f5[i].tags = None

\* faulty variant: the tags step without the two .lower() calls
FilterListCased(channels, criteria) ==
    LET f5 == FilterExact(channels, criteria) IN
    IF Given(criteria, KeyTags)
    THEN SelectSeq(f5, LAMBDA ch : Contains(criteria[KeyTags], ch.tags))
    ELSE f5

\* the tags step: tags in ch.get('tags', '').lower()
FilterList(channels, criteria) ==
    LET f5 == FilterExact(channels, criteria) IN
    IF Given(criteria, KeyTags)
    THEN SelectSeq(f5, LAMBDA ch : Contains(StrLower(criteria[KeyTags]), StrLower(ch.tags)))
    ELSE f5

\* filter_channels(criteria): [channels, file, raised]
filter_channels(file, w, criteria) ==
    LET ld == load_channels_from_csv(file, w) IN
    [channels |-> FilterList(ld.channels, criteria), file |-> ld.file,
     raised |-> TagsRaise(ld.channels, criteria)]

\* get_unique_values(column), as a set (the code sorts it for display)
get_unique_values(file, w, column) ==
    LET chs == load_channels_from_csv(file, w).channels IN
    {chs[i][column] : i \in {j \in 1..Len(chs) : chs[j][column] \notin {<<>>, None}}}

-----------------------------------------------------------------------------
(* Customers: the JSON object of customers.json, a dict kept in insertion  *)
(* order, as a sequence of [token, customer] entries.                      *)

DictHas(d, token) == \E i \in 1..Len(d) : d[i].token = token
DictGet(d, token) == d[CHOOSE i \in 1..Len(d) : d[i].token = token].customer
\* faulty variant: the new record saved alone, the loaded ones dropped
DictSetAlone(d, token, customer) == <<[token |-> token, customer |-> customer]>>

\* d[token] = customer: in place for a key already there, else at the end
DictSet(d, token, customer) ==
    IF DictHas(d, token)
    THEN [i \in 1..Len(d) |-> IF d[i].token = token
                              THEN [token |-> token, customer |-> customer] ELSE d[i]]
    ELSE Append(d, [token |-> token, customer |-> customer])
\* del d[token]
DictDel(d, token) == SelectSeq(d, LAMBDA e : e.token # token)

\* load_customers(): {} when the file is absent (or json.load raises)
load_customers(file) == IF file.exists THEN file.rows ELSE <<>>

\* save_customers(customers): [ok, file]
save_customers(file, w, customers) ==
    IF w THEN [ok |-> TRUE, file |-> FileOf(customers)]
    ELSE [ok |-> FALSE, file |-> file]

\* datetime.now() + timedelta(days=days)
ExpiresAt(t, days) == t + days * TicksPerDay

\* create_customer after its load: the record is put into the loaded dict and
\* the dict saved; the value save_customers returns is dropped
CreateWrite(customers, file, w, token, username, days, filters, t) ==
    LET customer == [username |-> username, created |-> t, expires |-> ExpiresAt(t, days),
                     filters |-> filters, active |-> TRUE, playlist_count |-> 0]
        saved == save_customers(file, w, DictSet(customers, token, customer))
    IN  [token |-> token, customer |-> customer, expires |-> ExpiresAt(t, days),
         file |-> saved.file]

\* create_customer(username, days, filters) with the token secrets.token_urlsafe drew
create_customer(file, w, token, username, days, filters, t) ==
    CreateWrite(load_customers(file), file, w, token, username, days, filters, t)

\* revoke_customer after its load: [ok, file]; the value save_customers
\* returns is dropped, so a found token is always answered as revoked
RevokeWrite(customers, file, w, token) ==
    IF DictHas(customers, token)
    THEN [ok |-> TRUE, file |-> save_customers(file, w, DictDel(customers, token)).file]
    ELSE [ok |-> FALSE, file |-> file]

\* filters[key] = value for every arg of args[2:] that holds '=', later ones overriding
RECURSIVE ParseFilters(_, _)
ParseFilters(filters, rest) ==
    IF rest = <<>> THEN filters
    ELSE IF HasEq(Head(rest))
         THEN LET key == SplitKey(Head(rest))
                  value == SplitValue(Head(rest))
              IN ParseFilters([k \in (DOMAIN filters) \cup {key} |->
                                  IF k = key THEN value ELSE filters[k]], Tail(rest))
         ELSE ParseFilters(filters, Tail(rest))

NoFilters == [k \in {} |-> <<>>]

\* (expires - datetime.now()).days: timedelta.days is the floor
DaysLeft(expires, t) == (expires - t) \div TicksPerDay

\* strftime('%Y-%m-%d')
DateOf(t) == t \div TicksPerDay

-----------------------------------------------------------------------------
(* Telegram handlers.  One action per handler, run to completion.          *)

ADMIN_IDS == {1}

\* faulty variant: a handler without its admin check
IsAdminAnyone(caller) == TRUE

\* update.effective_user.id in ADMIN_IDS
IsAdmin(caller) == caller \in ADMIN_IDS

Text(tag) == [kind |-> "text", tag |-> tag]
TextFor(tag, name) == [kind |-> "text", tag |-> tag, name |-> name]
Unauthorized == Text("unauthorized")

Handled(cmd, caller, args) == last' = [cmd |-> cmd, caller |-> caller, args |-> args]

\* main(): the start-up load
main ==
    /\ ~started
    /\ started' = TRUE
    /\ chanFile' = load_channels_from_csv(chanFile, writable).file
    /\ Handled("main", 0, <<>>)
    /\ replies' = <<>>
    /\ UNCHANGED <<custFile, writable, now, addLog, procs>>

\* start: no admin check; loads the channels twice (directly and for the groups)
start(caller, args) ==
    LET ld == load_channels_from_csv(chanFile, writable) IN
    /\ started
    /\ chanFile' = ld.file
    /\ replies' = <<[kind |-> "text", tag |-> "welcome", total |-> Len(ld.channels),
                     groups |-> get_unique_values(ld.file, writable, "group")]>>
    /\ Handled("start", caller, args)
    /\ UNCHANGED <<started, custFile, writable, now, addLog, procs>>

\* the part of add_channel after the admin check
AddAuthorized(args) ==
    IF Len(args) < MinAddArgs
    THEN /\ replies' = <<Text("usage")>>
         /\ UNCHANGED chanFile
    ELSE LET name == args[1]
             url == args[2]
             group == IF Len(args) > 2 THEN args[3] ELSE General
             r == add_channel_to_csv(chanFile, writable, name, url, group)
         IN  /\ chanFile' = r.file
             /\ replies' = <<TextFor(IF r.ok THEN "added" ELSE "exists", name)>>

\* the add log gets an entry for every call of add_channel_to_csv (kept by the
\* add-only specification; add_channel itself leaves addLog to its caller)
CallsAdd(caller, args) == caller \in ADMIN_IDS /\ Len(args) >= MinAddArgs
LogAdd(caller, args) ==
    IF CallsAdd(caller, args)
    THEN Append(addLog, [name |-> args[1], url |-> args[2],
                         group |-> IF Len(args) > 2 THEN args[3] ELSE General])
    ELSE addLog

add_channel(caller, args) ==
    /\ started
    /\ IF ~IsAdmin(caller)
       THEN replies' = <<Unauthorized>> /\ UNCHANGED chanFile
       ELSE AddAuthorized(args)
    /\ Handled("add", caller, args)
    /\ UNCHANGED <<started, custFile, writable, now, procs>>

list_channels(caller, args) ==
    LET ld == load_channels_from_csv(chanFile, writable) IN
    /\ started
    /\ IF ~IsAdmin(caller)
       THEN replies' = <<Unauthorized>> /\ UNCHANGED chanFile
       ELSE /\ chanFile' = ld.file
            /\ replies' = IF ld.channels = <<>> THEN <<Text("nochannels")>>
                          ELSE <<[kind |-> "text", tag |-> "channels",
                                  total |-> Len(ld.channels)]>>
    /\ Handled("list", caller, args)
    /\ UNCHANGED <<started, custFile, writable, now, addLog, procs>>

remove_channel(caller, args) ==
    /\ started
    /\ IF ~IsAdmin(caller)
       THEN replies' = <<Unauthorized>> /\ UNCHANGED chanFile
       ELSE IF args = <<>>
       THEN replies' = <<Text("usage")>> /\ UNCHANGED chanFile
       ELSE LET r == remove_channel_from_csv(chanFile, writable, args[1]) IN
            /\ chanFile' = r.file
            /\ replies' = <<TextFor(IF r.ok THEN "removed" ELSE "notfound", args[1])>>
    /\ Handled("remove", caller, args)
    /\ UNCHANGED <<started, custFile, writable, now, addLog, procs>>

\* show_groups: four get_unique_values calls, each a load
show_groups(caller, args) ==
    /\ started
    /\ IF ~IsAdmin(caller)
       THEN replies' = <<Unauthorized>> /\ UNCHANGED chanFile
       ELSE /\ chanFile' = load_channels_from_csv(chanFile, writable).file
            /\ replies' = <<[kind |-> "text", tag |-> "groups",
                             groups |-> get_unique_values(chanFile, writable, "group"),
                             countries |-> get_unique_values(chanFile, writable, "country"),
                             languages |-> get_unique_values(chanFile, writable, "language"),
                             qualities |-> get_unique_values(chanFile, writable, "quality")]>>
    /\ Handled("groups", caller, args)
    /\ UNCHANGED <<started, custFile, writable, now, addLog, procs>>

export_csv(caller, args) ==
    /\ started
    /\ IF ~IsAdmin(caller)
       THEN replies' = <<Unauthorized>>
       ELSE IF chanFile.exists
       THEN replies' = <<[kind |-> "document", tag |-> "csv", rows |-> chanFile.rows,
                          total |-> Len(load_channels_from_csv(chanFile, writable).channels)]>>
       ELSE replies' = <<Text("nocsv")>>
    /\ Handled("export", caller, args)
    /\ UNCHANGED <<started, chanFile, custFile, writable, now, addLog, procs>>

\* the channel part of the M3U text: per channel the #EXTINF line, then the URL line
RECURSIVE M3uLines(_)
M3uLines(channels) ==
    IF channels = <<>> THEN <<>>
    ELSE <<[line |-> "extinf", group_title |-> Head(channels).group, name |-> Head(channels).name],
           [line |-> "url", text |-> Head(channels).url]>> \o M3uLines(Tail(channels))

M3uSuffix == <<"_","i","p","t","v",".","m","3","u">>

\* the part of create_customer_playlist after the admin check
CreateAuthorized(args, token) ==
    IF Len(args) < MinCreateArgs
    THEN replies' = <<Text("usage")>> /\ UNCHANGED <<chanFile, custFile>>
    ELSE IF ~IsInt(args[2])
    THEN replies' = <<>> /\ UNCHANGED <<chanFile, custFile>>       \* int() raises ValueError
    ELSE LET username == args[1]
             days == ToInt(args[2])
             filters == ParseFilters(NoFilters, SubSeq(args, 3, Len(args)))
             res == create_customer(custFile, writable, token, username, days, filters, now)
             fc == filter_channels(chanFile, writable, filters)
             filtered_channels == fc.channels
         IN  /\ custFile' = res.file
             /\ chanFile' = fc.file
             /\ replies' =
                  IF fc.raised THEN <<>>                           \* raised in filter_channels
                  ELSE <<[kind |-> "document", tag |-> "created",
                          filename |-> username \o M3uSuffix,
                          username |-> username, generated |-> now,
                          expires |-> DateOf(res.expires), token |-> res.token,
                          filters |-> filters, count |-> Len(filtered_channels),
                          lines |-> M3uLines(filtered_channels)],
                         [kind |-> "text", tag |-> "token", token |-> res.token]>>

\* secrets.token_urlsafe(16) draws 128 random bits: the token is taken to be
\* one no record of the file carries
create_customer_playlist(caller, args, token) ==
    /\ started
    /\ ~DictHas(load_customers(custFile), token)
    /\ IF ~IsAdmin(caller)
       THEN replies' = <<Unauthorized>> /\ UNCHANGED <<chanFile, custFile>>
       ELSE CreateAuthorized(args, token)
    /\ Handled("create", caller, args)
    /\ UNCHANGED <<started, writable, now, addLog, procs>>

\* one entry of the customers listing
ListedCustomer(e, t) ==
    LET days_left == DaysLeft(e.customer.expires, t) IN
    [username |-> e.customer.username, token |-> e.token, days_left |-> days_left,
     expires |-> DateOf(e.customer.expires), active |-> days_left > 0]

list_customers(caller, args) ==
    LET customers == load_customers(custFile)
        shown == SubSeq(customers, 1, IF Len(customers) < ListLimit THEN Len(customers) ELSE ListLimit)
        listed == [i \in 1..Len(shown) |-> ListedCustomer(shown[i], now)]
    IN
    /\ started
    /\ IF ~IsAdmin(caller)
       THEN replies' = <<Unauthorized>>
       ELSE IF customers = <<>>
       THEN replies' = <<Text("nocustomers")>>
       ELSE replies' = <<[kind |-> "text", tag |-> "customers", listed |-> listed,
                          more |-> IF Len(customers) > ListLimit THEN Len(customers) - ListLimit ELSE 0,
                          active |-> Cardinality({i \in 1..Len(listed) : listed[i].active}),
                          expired |-> Cardinality({i \in 1..Len(listed) : ~listed[i].active})]>>
    /\ Handled("customers", caller, args)
    /\ UNCHANGED <<started, chanFile, custFile, writable, now, addLog, procs>>

revoke_customer(caller, args) ==
    LET customers == load_customers(custFile) IN
    /\ started
    /\ IF ~IsAdmin(caller)
       THEN replies' = <<Unauthorized>> /\ UNCHANGED custFile
       ELSE IF args = <<>>
       THEN replies' = <<Text("usage")>> /\ UNCHANGED custFile
       ELSE LET r == RevokeWrite(customers, custFile, writable, args[1]) IN
            /\ custFile' = r.file
            /\ replies' = IF r.ok THEN <<TextFor("revoked", DictGet(customers, args[1]).username)>>
                          ELSE <<Text("tokennotfound")>>
    /\ Handled("revoke", caller, args)
    /\ UNCHANGED <<started, chanFile, writable, now, addLog, procs>>

-----------------------------------------------------------------------------
(* The environment *)

\* time passes
Tick ==
    /\ now' = now + 1
    /\ Handled("tick", 0, <<>>)
    /\ replies' = <<>>
    /\ UNCHANGED <<started, chanFile, custFile, writable, addLog, procs>>

\* the working directory becomes unwritable, or writable again
SetWritable ==
    /\ writable' = ~writable
    /\ Handled("env", 0, <<>>)
    /\ replies' = <<>>
    /\ UNCHANGED <<started, chanFile, custFile, now, addLog, procs>>

-----------------------------------------------------------------------------
(* Inputs *)

Users == {1, 2}                 \* 1 is on the admin list, 2 is not

Bbc == <<"b","b","c">>
BBC == <<"B","B","C">>
Cnn == <<"c","n","n">>
NameArgs == {Bbc, BBC, Cnn}
Url1 == <<"h","t","t","p",":","/","/","a","/","1">>
Url2 == <<"h","t","t","p",":","/","/","a","/","2">>
News == <<"N","e","w","s">>
Sports == <<"S","p","o","r","t","s">>
Alice == <<"a","l","i","c","e">>

\* secrets.token_urlsafe(16) values
TokenOf(i) == <<"t", "k", DigitChars[i + 1]>>
Tokens == {TokenOf(i) : i \in 1..MaxCustomers}

Idle == [p \in {1, 2} |-> [pc |-> "idle"]]
NoCommand == [cmd |-> "none", caller |-> 0, args |-> <<>>]

\* /add ...
AddArgs ==
    {<<>>, <<Bbc>>} \cup {<<n, Url1>> : n \in NameArgs} \cup {<<n, Url2, News>> : n \in NameArgs}
\* /remove ...
RemoveArgs == {<<>>} \cup {<<n>> : n \in NameArgs \cup {<<"E","S","P","N">>}}
\* /revoke ...
RevokeArgs == {<<>>} \cup {<<t>> : t \in Tokens}

\* a channels.csv found at start-up: edited by hand, fields padded with blanks
PaddedRows ==
    <<<<<<" ","c","n","n"," ">>, <<" ","h","t","t","p",":","/","/","a","/","0">>, <<"N","e","w","s"," ">>, <<"U","K">>, <<"e","n">>, <<"H","D">>, <<"c","1">>, <<"L","i","v","e",",","U","K">>>>>>

-----------------------------------------------------------------------------
(* Specifications.  Each starts before main() has run. *)

Boot ==
    /\ started = FALSE
    /\ custFile = Absent
    /\ now = 0
    /\ last = NoCommand
    /\ replies = <<>>
    /\ addLog = <<>>
    /\ procs = Idle

-----------------------------------------------------------------------------
(* SpecAdd: an empty catalog and nothing but /add commands, every call of  *)
(* add_channel_to_csv logged.                                              *)

InitAdd ==
    /\ Boot
    /\ chanFile \in {Absent, EmptyFile}
    /\ writable = TRUE

NextAdd ==
    \/ main
    \/ \E caller \in Users, args \in AddArgs :
          /\ Len(addLog) < MaxAdds
          /\ add_channel(caller, args)
          /\ addLog' = LogAdd(caller, args)

SpecAdd == InitAdd /\ [][NextAdd]_vars

\* the record a load returns for a channel added as name, url, group
AddedChannel(a) ==
    [name |-> a.name, url |-> a.url, group |-> a.group, country |-> <<>>,
     language |-> <<>>, quality |-> HD, category |-> <<>>, tags |-> <<>>]

\* of a log of adds, the first one of each name, names compared ignoring case
RECURSIVE FirstOfEachName(_, _)
FirstOfEachName(log, seen) ==
    IF log = <<>> THEN <<>>
    ELSE IF StrLower(Head(log).name) \in seen THEN FirstOfEachName(Tail(log), seen)
    ELSE <<AddedChannel(Head(log))>>
           \o FirstOfEachName(Tail(log), seen \cup {StrLower(Head(log).name)})

Catalog == load_channels_from_csv(chanFile, writable).channels
LastAddIsRepeat ==
    \E i \in 1..(Len(addLog) - 1) :
        StrLower(addLog[i].name) = StrLower(addLog[Len(addLog)].name)

\* C1: from an empty catalog, after any sequence of adds the loaded catalog is,
\* in insertion order, the first add of each case-insensitively distinct name;
\* an add is answered "already exists" exactly when its name was added before
\* (ignoring case) and "added" otherwise.
C1_AddsKeepFirstOfEachName ==
    /\ Catalog = FirstOfEachName(addLog, {})
    /\ (last.cmd = "add" /\ CallsAdd(last.caller, last.args)) =>
          replies = <<TextFor(IF LastAddIsRepeat THEN "exists" ELSE "added", last.args[1])>>

\* a name was added, then refused in another case, then another name was added
C1_Witness ==
    /\ Len(addLog) = 3
    /\ addLog[1].name = Bbc /\ addLog[2].name = BBC /\ addLog[3].name = Cnn
    /\ Len(Catalog) = 2
    /\ replies = <<TextFor("added", Cnn)>>

-----------------------------------------------------------------------------
(* SpecCatalog: the channel commands, from any caller, in a directory that *)
(* stays writable.                                                         *)

\* a channels.csv found at start-up
ThreeRows ==
    <<<<Bbc, Url1, News, <<"U","K">>, <<"e","n">>, <<"H","D">>, <<"c","1">>, <<"L","i","v","e">>>>,
      <<<<"e","s","p","n">>, Url2, Sports, <<"U","S">>, <<"e","n">>, <<"F","H","D">>, <<"c","2">>, <<>>>>,
      <<<<"s","k","y">>, Url1, News, <<>>, <<>>, <<>>, <<>>, <<>>>>>>

InitCatalog ==
    /\ Boot
    /\ chanFile \in {Absent, EmptyFile, FileOf(PaddedRows), FileOf(ThreeRows)}
    /\ writable = TRUE

NextCatalog ==
    \/ main
    \/ \E caller \in Users :
        \/ start(caller, <<>>)
        \/ \E args \in AddArgs :
              Len(chanFile.rows) < MaxChannels /\ add_channel(caller, args) /\ UNCHANGED addLog
        \/ list_channels(caller, <<>>)
        \/ \E args \in RemoveArgs : remove_channel(caller, args)
        \/ show_groups(caller, <<>>)
        \/ export_csv(caller, <<>>)

SpecCatalog == InitCatalog /\ [][NextCatalog]_vars

\* seq without its i-th element
DropAt(seq, i) == SubSeq(seq, 1, i - 1) \o SubSeq(seq, i + 1, Len(seq))
CatalogAfter == load_channels_from_csv(chanFile', writable').channels
SameName(a, b) == StrLower(a) = StrLower(b)

-----------------------------------------------------------------------------
(* Spec: the whole bot, one command at a time, every command from every    *)
(* caller, in a directory that can become unwritable and writable again.   *)

AddArgsS == {<<Bbc>>, <<Bbc, Url1>>}
RemoveArgsS == {<<>>, <<Bbc>>}
CreateArgsS == {<<Alice, <<"1">>>>, <<Alice, <<"1">>, <<"a","l","l">>>>}

Init ==
    /\ Boot
    /\ chanFile \in {Absent, EmptyFile}
    /\ writable \in BOOLEAN

Next ==
    \/ main
    \/ \E caller \in Users :
        \/ start(caller, <<>>)
        \/ \E args \in AddArgsS :
              Len(chanFile.rows) < MaxChannels /\ add_channel(caller, args) /\ UNCHANGED addLog
        \/ list_channels(caller, <<>>)
        \/ \E args \in RemoveArgsS : remove_channel(caller, args)
        \/ show_groups(caller, <<>>)
        \/ export_csv(caller, <<>>)
        \/ \E args \in CreateArgsS, token \in Tokens :
              Len(load_customers(custFile)) < MaxCustomers
              /\ create_customer_playlist(caller, args, token)
        \/ list_customers(caller, <<>>)
        \/ \E args \in RevokeArgs : revoke_customer(caller, args)
    \/ SetWritable

Spec == Init /\ [][Next]_vars

Commands == {"start", "add", "list", "remove", "groups", "export", "create", "customers", "revoke"}
\* the step handles a command of a caller who is not on the admin list
OutsiderStep == last'.cmd \in Commands /\ last'.caller \notin ADMIN_IDS

\* C3 as claimed: every command of a caller outside the admin list is answered
\* with the unauthorized message and changes neither file.
C3_Original ==
    [][ OutsiderStep =>
          /\ replies' = <<Unauthorized>>
          /\ chanFile' = chanFile
          /\ custFile' = custFile
      ]_vars

\* C3 amended: that holds of every command but start.  start has no admin
\* check: it answers any caller with the welcome text and loads the catalog,
\* which creates channels.csv with only the header row when the file is
\* absent; it changes no existing file.
C3_UnauthorizedExceptStart ==
    [][ OutsiderStep =>
          /\ custFile' = custFile
          /\ IF last'.cmd = "start"
             THEN /\ Len(replies') = 1 /\ replies'[1].tag = "welcome"
                  /\ \/ chanFile' = chanFile
                     \/ ~chanFile.exists /\ chanFile' = EmptyFile
             ELSE /\ replies' = <<Unauthorized>>
                  /\ chanFile' = chanFile
      ]_vars

\* an outsider named an existing token in /revoke and the record is still there
C3_Witness ==
    /\ last.cmd = "revoke" /\ last.caller = 2 /\ last.args # <<>>
    /\ DictHas(load_customers(custFile), last.args[1])
    /\ replies = <<Unauthorized>>

\* C7: no command answers with a success message for an update that is not in
\* the file: a created customer's token is in customers.json, a revoked token
\* is not, an added channel is in channels.csv, a removed one is not.
C7_SuccessMeansPersisted ==
    Len(replies) > 0 =>
       /\ replies[1].tag = "created" => DictHas(load_customers(custFile), replies[1].token)
       /\ replies[1].tag = "revoked" => ~DictHas(load_customers(custFile), last.args[1])
       /\ replies[1].tag = "added" => NameExists(Catalog, last.args[1])
       /\ replies[1].tag = "removed" => ~NameExists(Catalog, last.args[1])

-----------------------------------------------------------------------------
(* SpecCustomers: the customer commands and the channel commands of any    *)
(* caller while time passes, in a directory that stays writable.           *)

CreateArgsC ==
    {<<Alice, <<"1">>, <<"a","l","l">>>>, <<<<"b","o","b">>, <<"0">>, <<"g","r","o","u","p","=","N","e","w","s">>>>}

InitCustomers ==
    /\ Boot
    /\ chanFile = EmptyFile
    /\ writable = TRUE

NextCustomers ==
    \/ main
    \/ \E caller \in Users :
        \/ \E args \in {<<Bbc, Url1>>} :
              Len(chanFile.rows) < MaxChannels /\ add_channel(caller, args) /\ UNCHANGED addLog
        \/ \E args \in {<<Bbc>>} : remove_channel(caller, args)
        \/ \E args \in CreateArgsC, token \in Tokens :
              Len(load_customers(custFile)) < MaxCustomers
              /\ create_customer_playlist(caller, args, token)
        \/ list_customers(caller, <<>>)
        \/ \E args \in RevokeArgs : revoke_customer(caller, args)
    \/ now < MaxTime /\ Tick

SpecCustomers == InitCustomers /\ [][NextCustomers]_vars

Customers == load_customers(custFile)
CustomersAfter == load_customers(custFile')
\* the step is an admin's /revoke naming token
RevokeOf(token) ==
    last'.cmd = "revoke" /\ last'.caller \in ADMIN_IDS /\ last'.args = <<token>>

\* C8: a customer record stays in the collection with the same fields through
\* every step that is not an admin's revoke of its own token, and that revoke
\* removes exactly that record, the others unchanged and in the same order.
C8_OnlyRevokeRemoves ==
    [][ /\ \A i \in 1..Len(Customers) :
              \/ RevokeOf(Customers[i].token)
              \/ \E j \in 1..Len(CustomersAfter) : CustomersAfter[j] = Customers[i]
        /\ \A i \in 1..Len(Customers) :
              RevokeOf(Customers[i].token) => CustomersAfter = DropAt(Customers, i)
      ]_vars

\* of two customers the first was revoked; the second is past its expiry and
\* still in the file
C8_Witness ==
    /\ last.cmd = "revoke" /\ Len(replies) = 1 /\ replies[1].tag = "revoked"
    /\ Len(Customers) = 1
    /\ Customers[1].token # last.args[1]
    /\ Customers[1].customer.created < now
    /\ Customers[1].customer.expires <= now

\* C9: the listing shows a customer as expired exactly when the current time is
\* at or after its stored expiry, and the active and expired totals together
\* count every customer of the collection.
C9_ExpiredIffPastExpiry ==
    (last.cmd = "customers" /\ Len(replies) = 1 /\ replies[1].tag = "customers") =>
       /\ \A i \in 1..Len(replies[1].listed) :
             replies[1].listed[i].active <=> (now < Customers[i].customer.expires)
       /\ replies[1].active + replies[1].expired = Len(Customers)

-----------------------------------------------------------------------------
(* SpecPlaylist: /create with filters over catalogs found at start-up.     *)
(* A playlist does not depend on the customers on file: each is generated  *)
(* with none on file, /revoke clearing the file in between.                *)

\* a channels.csv found at start-up: three News and two Sports channels
FiveRows ==
    <<<<Bbc, Url1, News, <<"U","K">>, <<"e","n">>, <<"H","D">>, <<"c","1">>, <<"L","i","v","e",",","U","K">>>>,
      <<Cnn, Url2, News, <<"U","S">>, <<"e","n">>, <<"F","H","D">>, <<"c","1">>, <<"l","i","v","e">>>>,
      <<<<"s","k","y">>, <<"h","t","t","p",":","/","/","a","/","3">>, News, <<"U","K">>, <<"e","n">>, <<"H","D">>, <<"c","2">>, <<>>>>,
      <<<<"e","s","p","n">>, <<"h","t","t","p",":","/","/","a","/","4">>, Sports, <<"U","S">>, <<"e","s">>, <<"H","D">>, <<"c","2">>, <<"L","I","V","E",",","S","p","o","r","t">>>>,
      <<<<"g","o","l","f">>, <<"h","t","t","p",":","/","/","a","/","5">>, Sports, <<"U","K">>, <<"e","n">>, <<"S","D">>, <<"c","1">>, <<"S","p","o","r","t">>>>>>
TwoRows == SubSeq(FiveRows, 4, 5)

GroupNews == <<"g","r","o","u","p","=","N","e","w","s">>
GroupSports == <<"g","r","o","u","p","=","S","p","o","r","t","s">>
FilterArgs ==
    {GroupNews, GroupSports, <<"g","r","o","u","p","=","n","e","w","s">>, <<"g","r","o","u","p","=">>, <<"g","r","o","u","p","=","N","e","w","s","=","x">>,
     <<"c","o","u","n","t","r","y","=","U","K">>, <<"c","o","u","n","t","r","y","=">>, <<"l","a","n","g","u","a","g","e","=","e","n">>, <<"q","u","a","l","i","t","y","=","H","D">>, <<"c","a","t","e","g","o","r","y","=","c","1">>,
     <<"t","a","g","s","=","l","i","v","e">>, <<"t","a","g","s","=","S","P","O","R","T">>, <<"t","a","g","s","=",",">>, <<"t","a","g","s","=">>, <<"f","o","o","=","b","a","r">>, <<"a","l","l">>}
Thirty == <<"3","0">>
CreateArgsP ==
    {<<Alice>>, <<Alice, Thirty>>, <<Alice, <<"x">>, GroupNews>>, <<Alice, <<"-","1">>, GroupNews>>}
    \cup {<<Alice, Thirty, f>> : f \in FilterArgs}
    \cup {<<Alice, Thirty, f, g>> : f \in {GroupNews, GroupSports, <<"t","a","g","s","=","l","i","v","e">>}, g \in FilterArgs}
    \cup {<<Alice, Thirty, GroupNews, <<"c","o","u","n","t","r","y","=","U","K">>, <<"l","a","n","g","u","a","g","e","=","e","n">>, <<"q","u","a","l","i","t","y","=","H","D">>,
            <<"c","a","t","e","g","o","r","y","=","c","1">>, <<"t","a","g","s","=","l","i","v","e">>>>}

InitPlaylist ==
    /\ Boot
    /\ chanFile \in {EmptyFile, FileOf(TwoRows), FileOf(FiveRows), FileOf(PaddedRows)}
    /\ writable = TRUE

NextPlaylist ==
    \/ main
    \/ \E caller \in Users :
        \/ \E args \in CreateArgsP, token \in Tokens :
              load_customers(custFile) = <<>>
              /\ create_customer_playlist(caller, args, token)
        \/ \E args \in RevokeArgs : revoke_customer(caller, args)

SpecPlaylist == InitPlaylist /\ [][NextPlaylist]_vars

FilterKeys == {KeyGroup, KeyCountry, KeyLanguage, KeyQuality, KeyCategory, KeyTags}
ColumnOf(key, ch) ==
    CASE key = KeyGroup -> ch.group
      [] key = KeyCountry -> ch.country
      [] key = KeyLanguage -> ch.language
      [] key = KeyQuality -> ch.quality
      [] key = KeyCategory -> ch.category
      [] key = KeyTags -> ch.tags
\* one filter on one channel: exact, but for tags, containment ignoring case
Satisfies(ch, key, value) ==
    IF key = KeyTags
    THEN \E i \in 0..Len(ch.tags) : \E j \in i..Len(ch.tags) :
            StrLower(SubSeq(ch.tags, i + 1, j)) = StrLower(value)
    ELSE ColumnOf(key, ch) = value
\* the playlist holds exactly the catalog channels with an index in idx, in
\* catalog order, each as its directive line followed by its URL line
PlaylistIs(doc, idx) ==
    LET Rank(i) == Cardinality({j \in idx : j <= i})
    IN  /\ Len(doc.lines) = 2 * Cardinality(idx)
        /\ doc.count = Cardinality(idx)
        /\ \A i \in idx :
              /\ doc.lines[2 * Rank(i) - 1] =
                    [line |-> "extinf", group_title |-> Catalog[i].group, name |-> Catalog[i].name]
              /\ doc.lines[2 * Rank(i)] = [line |-> "url", text |-> Catalog[i].url]
IsPlaylist == last.cmd = "create" /\ Len(replies) = 2 /\ replies[1].kind = "document"

\* C4 as claimed: the playlist holds exactly the channels that satisfy every
\* supplied filter.
C4_Original ==
    IsPlaylist =>
       PlaylistIs(replies[1], {i \in 1..Len(Catalog) :
          \A key \in FilterKeys \cap DOMAIN replies[1].filters :
             Satisfies(Catalog[i], key, replies[1].filters[key])})

\* C4 amended: the playlist holds exactly the channels that satisfy every
\* supplied filter whose value is not empty; a filter given with an empty
\* value (group=) is ignored.
C4_NonEmptyFiltersAnded ==
    IsPlaylist =>
       PlaylistIs(replies[1], {i \in 1..Len(Catalog) :
          \A key \in FilterKeys \cap DOMAIN replies[1].filters :
             replies[1].filters[key] # <<>>
                => Satisfies(Catalog[i], key, replies[1].filters[key])})

\* group=News over three News and two Sports channels: three entries, all News
C4_Witness ==
    /\ IsPlaylist
    /\ last.args = <<Alice, Thirty, GroupNews>>
    /\ chanFile = FileOf(FiveRows)
    /\ replies[1].count = 3
    /\ \A i \in {1, 3, 5} : replies[1].lines[i].group_title = News

WellFormedCreate ==
    /\ last.cmd = "create" /\ last.caller \in ADMIN_IDS
    /\ Len(last.args) >= 2 /\ IsInt(last.args[2])
    /\ \A i \in 3..Len(last.args) : HasEq(last.args[i])

\* C5: an admin's /create with a username, an integer day count and any number
\* of filter=value arguments, none included, returns the playlist file
\* <username>_iptv.m3u; with no filter it lists every channel of the catalog,
\* and with an empty catalog it holds no channel line.
C5_CreateAlwaysSucceeds ==
    WellFormedCreate =>
       /\ Len(replies) = 2 /\ replies[1].kind = "document"
       /\ replies[1].filename = last.args[1] \o M3uSuffix
       /\ Len(last.args) = 2 => PlaylistIs(replies[1], 1..Len(Catalog))
       /\ Catalog = <<>> => replies[1].lines = <<>>

-----------------------------------------------------------------------------
(* SpecCorrupt: the channel commands over a channels.csv that was edited   *)
(* by hand and holds short rows and blank lines.                           *)

GoodRow(name) == <<name, Url1, News, <<"U","K">>, <<"e","n">>, <<"H","D">>, <<"c","1">>, <<>>>>
ShortRow == <<<<"i","t","v">>>>                             \* a line with one field
BlankLine == <<>>
CorruptFiles ==
    {FileOf(<<GoodRow(Bbc), ShortRow, GoodRow(Cnn)>>),
     FileOf(<<ShortRow, GoodRow(Bbc)>>),
     FileOf(<<GoodRow(Bbc), BlankLine, GoodRow(Cnn)>>),
     FileOf(<<GoodRow(Bbc), <<Cnn, Url2, Sports, <<"U","S">>>>>>)}

InitCorrupt ==
    /\ Boot
    /\ chanFile \in CorruptFiles
    /\ writable = TRUE

NextCorrupt ==
    \/ main
    \/ \E caller \in Users :
        \/ \E args \in {<<Cnn, Url2>>, <<<<"s","k","y">>, Url2, Sports>>} :
              Len(chanFile.rows) < MaxChannels + 3 /\ add_channel(caller, args) /\ UNCHANGED addLog
        \/ list_channels(caller, <<>>)
        \/ \E args \in RemoveArgs : remove_channel(caller, args)
        \/ export_csv(caller, <<>>)

SpecCorrupt == InitCorrupt /\ [][NextCorrupt]_vars

\* some line of the file cannot be parsed: it lacks the name, url or group column
Unparseable(file) ==
    file.exists /\ \E i \in 1..Len(file.rows) : Len(file.rows[i]) \in {1, 2}

\* C6: a load of a file in which some row cannot be parsed returns the empty
\* sequence, so /list over such a file answers that there are no channels and
\* no remove or add rewrites the file from a part of its rows.
C6_UnparseableLoadsEmpty ==
    [][ (Unparseable(chanFile) /\ last'.cmd \in {"list", "remove", "add"}) =>
          /\ last'.cmd = "list" /\ last'.caller \in ADMIN_IDS => replies' = <<Text("nochannels")>>
          /\ last'.cmd = "remove" => chanFile' = chanFile
      ]_vars

-----------------------------------------------------------------------------
(* SpecRace: two admin commands in flight at once on the same files, as    *)
(* when two bot processes share the directory.  No handler holds a lock,   *)
(* so the load of one command and its write are separate steps and the     *)
(* other command's steps can fall between them.                            *)

Procs == {1, 2}
ChannelCmds == {"add", "remove"}
OnSameFile(c, d) == (c \in ChannelCmds) <=> (d \in ChannelCmds)

Tk0 == <<"t", "k", "0">>
OldCustomer ==
    [token |-> Tk0,
     customer |-> [username |-> <<"b","o","b">>, created |-> 0, expires |-> TicksPerDay,
                   filters |-> NoFilters, active |-> TRUE, playlist_count |-> 0]]

InitRace ==
    /\ started = FALSE
    /\ chanFile \in {EmptyFile, FileOf(<<GoodRow(Bbc), GoodRow(Cnn)>>)}
    /\ custFile \in {Absent, FileOf(<<OldCustomer>>)}
    /\ writable = TRUE
    /\ now = 0
    /\ last = NoCommand
    /\ replies = <<>>
    /\ addLog = <<>>
    /\ procs = Idle

\* a process enters a command and runs it up to and including its load
Load(p, cmd, arg) ==
    /\ started
    /\ procs[p].pc = "idle"
    /\ IF cmd \in ChannelCmds
       THEN LET ld == load_channels_from_csv(chanFile, writable) IN
            /\ chanFile' = ld.file
            /\ procs' = [procs EXCEPT ![p] = [pc |-> "loaded", cmd |-> cmd, arg |-> arg,
                                              loaded |-> ld.channels, stale |-> FALSE]]
            /\ UNCHANGED custFile
       ELSE /\ cmd = "create" => ~DictHas(load_customers(custFile), arg)
            /\ \A q \in Procs \ {p} : procs[q].pc # "idle" => procs[q].arg # arg
            /\ procs' = [procs EXCEPT ![p] = [pc |-> "loaded", cmd |-> cmd, arg |-> arg,
                                              loaded |-> load_customers(custFile),
                                              stale |-> FALSE]]
            /\ UNCHANGED <<chanFile, custFile>>
    /\ Handled("load", p, <<arg>>)
    /\ replies' = <<>>
    /\ UNCHANGED <<started, writable, now, addLog>>

\* what the rest of the command does with what it loaded: [ok, file]
WriteOf(pr) ==
    CASE pr.cmd = "add" -> AddWrite(pr.loaded, chanFile, writable, pr.arg, Url1, General)
      [] pr.cmd = "remove" -> RemoveWrite(pr.loaded, chanFile, writable, pr.arg)
      [] pr.cmd = "create" ->
            [ok |-> TRUE,
             file |-> CreateWrite(pr.loaded, custFile, writable, pr.arg, Alice, 1, NoFilters, now).file]
      [] pr.cmd = "revoke" -> RevokeWrite(pr.loaded, custFile, writable, pr.arg)

\* the process runs the rest of its command: the check on what it loaded, the
\* write and the reply.  A command of the other process that has loaded the
\* same file and not yet written now holds a stale copy.
Write(p) ==
    LET pr == procs[p]
        r == WriteOf(pr)
    IN
    /\ pr.pc = "loaded"
    /\ IF pr.cmd \in ChannelCmds
       THEN chanFile' = r.file /\ UNCHANGED custFile
       ELSE custFile' = r.file /\ UNCHANGED chanFile
    /\ procs' = [q \in Procs |->
                   IF q = p THEN [pc |-> "done", cmd |-> pr.cmd, arg |-> pr.arg,
                                  ok |-> r.ok, stale |-> pr.stale,
                                  second |-> \E o \in Procs \ {p} : procs[o].pc = "done"]
                   ELSE IF procs[q].pc = "loaded" /\ r.ok /\ OnSameFile(procs[q].cmd, pr.cmd)
                        THEN [procs[q] EXCEPT !.stale = TRUE]
                        ELSE procs[q]]
    /\ Handled("write", p, <<pr.arg>>)
    /\ replies' = <<Text(IF r.ok THEN "success" ELSE "failure")>>
    /\ UNCHANGED <<started, writable, now, addLog>>

NextRace ==
    \/ main
    \/ \E p \in Procs :
        \/ \E cmd \in ChannelCmds, name \in {Bbc, Cnn, <<"s","k","y">>} : Load(p, cmd, name)
        \/ \E token \in Tokens : Load(p, "create", token)
        \/ \E token \in Tokens \cup {Tk0} : Load(p, "revoke", token)
        \/ Write(p)

SpecRace == InitRace /\ [][NextRace]_vars

\* what a finished command reported as done is what the files show
EffectPresent(pr) ==
    CASE pr.cmd = "add" -> NameExists(Catalog, pr.arg)
      [] pr.cmd = "remove" -> ~NameExists(Catalog, pr.arg)
      [] pr.cmd = "create" -> DictHas(Customers, pr.arg)
      [] pr.cmd = "revoke" -> ~DictHas(Customers, pr.arg)

\* p wrote first; q had loaded the same file before that write and rewrote the
\* whole file after it; both reported success; they name different records
LostUpdate(p, q) ==
    /\ p # q
    /\ procs[p].pc = "done" /\ procs[q].pc = "done"
    /\ procs[p].ok /\ procs[q].ok
    /\ procs[q].second /\ procs[q].stale
    /\ OnSameFile(procs[p].cmd, procs[q].cmd)
    /\ procs[q].cmd # "add"
    /\ StrLower(procs[p].arg) # StrLower(procs[q].arg)

\* C10: when a command loads a file, another command then writes that file,
\* and the first then rewrites it from what it had loaded, both report success
\* and the file lacks the effect of the write that came first.
C10_StaleRewriteLosesUpdate ==
    \A p \in Procs, q \in Procs : LostUpdate(p, q) => ~EffectPresent(procs[p])

\* an add was answered "added" and a remove of another channel, loaded before
\* the add wrote, was answered "removed": the added channel is not in the file
C10_Witness ==
    /\ LostUpdate(1, 2)
    /\ procs[1].cmd = "add" /\ procs[1].arg = <<"s","k","y">>
    /\ procs[2].cmd = "remove" /\ procs[2].arg = Bbc
    /\ ~NameExists(Catalog, <<"s","k","y">>)

====
